---- MODULE Spec2Model ----
(***************************************************************************)
(* Model of the reverse-engineering agent (src/agent.py) and of the        *)
(* collaborators it drives: the template-analysis phase of analyze_site     *)
(* (semaphore-guarded jobs gathered with asyncio.gather), the analyzer's    *)
(* 404 detection and rate-limit retry loop                                  *)
(* (src/core/functional_analyzer.py) and navigation with retries            *)
(* (src/core/browser_manager.py).                                           *)
(*                                                                         *)
(* One asyncio event loop runs everything, so each action is the code a     *)
(* coroutine executes between two suspension points (awaits).               *)
(***************************************************************************)
EXTENDS Integers, Sequences, FiniteSets, TLC

VARIABLES
    phase,          \* position of analyze_site: "init", "discover", "analysis", "global", "returned", "raised"
    browserOpen,    \* BrowserManager holds a live page
    limit,          \* settings.max_templates_to_analyze
    templates,      \* detect_templates(urls): sequence of URLTemplate
    pc,             \* pc[i]: position of task analyze_with_semaphore(i, t)
    att,            \* att[i]: loop variable `attempt` of the retry loop the task is in
    hist,           \* hist[i]: history of job i (calls made, failures seen), read by no action
    aurl,           \* aurl[i]: local `url` of analyze(): page.url read at its start
    out,            \* out[i]: value the task returns (None or a spec dict), NoValue before
    sem,            \* free slots of asyncio.Semaphore(3)
    completed,      \* nonlocal counter `completed`
    page,           \* URL loaded in the one shared browser page (0: blank or entry URL)
    gatt,           \* loop variable `attempt` of navigate(target_url) in phase 5
    progressLog,    \* history: fractions passed to progress_callback, in call order
    results,        \* value of asyncio.gather(*tasks)
    template_specs, \* results with None filtered out
    report,         \* the SiteArchitecture returned, NoValue before
    exits,          \* history of how analyze_site left its try block, read by no action
    urls,           \* TemplateDetector: the list detect_templates is given
    clustered,      \* TemplateDetector: the list detect_templates returned, NoValue before
    calls,          \* TemplateDetector: history of _extract_pattern calls, in call order
    max_urls,       \* SitemapCrawler.max_urls
    discovered_urls, \* SitemapCrawler.discovered_urls
    dpc,            \* position of discover_urls: "idle", "sitemap", "crawl"
    base_url,       \* argument base_url of the discover_urls call
    sitemap,        \* locals of _fetch_sitemap: index of the path fetched next, urls
    crawl,          \* locals of _crawl_links: to_visit, visited, urls, depth
    result,         \* the list discover_urls returned, NoValue before
    dhist,          \* history of the discover_urls call, read by no action
    nav,            \* BrowserManager.navigate: position, url, attempt, last_error, outcome
    navlog          \* history of the navigate call, read by no action

agentVars == <<phase, browserOpen, limit, templates, pc, att, hist, aurl, out, sem,
               completed, page, gatt, progressLog, results, template_specs, report, exits>>
detectorVars == <<urls, clustered, calls>>
\* the state of the collaborators an action of analyze_site's phases leaves alone
crawlerVars == <<max_urls, discovered_urls, dpc, base_url, sitemap, crawl, result, dhist>>
navVars == <<nav, navlog>>
libVars == <<detectorVars, crawlerVars, navVars>>

vars == <<agentVars, detectorVars, crawlerVars, navVars>>

\* ---------------------------------------------------------------- bounds
\* most templates clustering yields, and largest max_templates_to_analyze
MaxTemplates == 2
\* the same for the runs that fill every slot of the semaphore
SlotTemplates == 4

\* ------------------------------------------------------ program constants
SemaphoreSlots == 3
MaxRetries == 3
NavRetries == 2

\* Python's None, by the type of the value it stands in for: a URL, a task's
\* return value, an error message.
NoUrl == -1
NoneResult == [status |-> "none"]
NoMessage == <<>>
\* a task that has not returned, a report not yet built
NoValue == [status |-> "unset"]

\* ------------------------------------------------------------------ text
\* Strings the code inspects are sequences of one-character strings.
Contains(hay, needle) ==
    \E k \in 0..(Len(hay) - Len(needle)) :
        \A j \in 1..Len(needle) : hay[k + j] = needle[j]

UpperToLower ==
    [c \in {"A","B","C","D","E","F","G","H","I","J","K","L","M",
            "N","O","P","Q","R","S","T","U","V","W","X","Y","Z"} |->
        CASE c = "A" -> "a" [] c = "B" -> "b" [] c = "C" -> "c" [] c = "D" -> "d"
          [] c = "E" -> "e" [] c = "F" -> "f" [] c = "G" -> "g" [] c = "H" -> "h"
          [] c = "I" -> "i" [] c = "J" -> "j" [] c = "K" -> "k" [] c = "L" -> "l"
          [] c = "M" -> "m" [] c = "N" -> "n" [] c = "O" -> "o" [] c = "P" -> "p"
          [] c = "Q" -> "q" [] c = "R" -> "r" [] c = "S" -> "s" [] c = "T" -> "t"
          [] c = "U" -> "u" [] c = "V" -> "v" [] c = "W" -> "w" [] c = "X" -> "x"
          [] c = "Y" -> "y" [] c = "Z" -> "z"]

\* str.lower()
Lower(s) ==
    [k \in 1..Len(s) |-> IF s[k] \in DOMAIN UpperToLower THEN UpperToLower[s[k]] ELSE s[k]]

DigitChar == <<"0", "1", "2", "3", "4", "5", "6", "7", "8", "9">>

RECURSIVE Digits(_)
\* str(n) for n >= 0
Digits(n) ==
    IF n < 10 THEN <<DigitChar[n + 1]>>
    ELSE Digits(n \div 10) \o <<DigitChar[(n % 10) + 1]>>

\* ----------------------------------------------------- 404 detection
error_keywords == <<
    <<"4", "0", "4">>,
    <<"n", "o", "t", " ", "f", "o", "u", "n", "d">>,
    <<"p", "a", "g", "e", " ", "n", "o", "t", " ", "f", "o", "u", "n", "d">>,
    <<"e", "r", "r", "o", "r">>,
    <<"o", "o", "p", "s">>,
    <<"c", "a", "n", "'", "t", " ", "f", "i", "n", "d">>,
    <<"d", "o", "e", "s", " ", "n", "o", "t", " ", "e", "x", "i", "s", "t">> >>

\* _is_404_page(title, url): any keyword occurs in the lower-cased title
Is404Page(title) ==
    \E k \in 1..Len(error_keywords) : Contains(Lower(title), error_keywords[k])

\* Titles page.title() may return.
TitleHome == <<"H", "o", "m", "e">>
TitleNotFound == <<"P", "a", "g", "e", " ", "N", "o", "t", " ", "F", "o", "u", "n", "d">>
Title404 == <<"4", "0", "4">>
Titles == {TitleHome, TitleNotFound, Title404}

\* ------------------------------------------- the external analysis service
\* str(e) of what llm.ainvoke may raise.
RateLimitMsg == <<"R", "a", "t", "e", "_", "L", "i", "m", "i", "t", "_", "E", "x", "c", "e", "e", "d", "e", "d">>
RateLimitCodeMsg == <<"E", "r", "r", "o", "r", " ", "c", "o", "d", "e", ":", " ", "4", "2", "9">>
ServerErrorMsg == <<"E", "r", "r", "o", "r", " ", "c", "o", "d", "e", ":", " ", "5", "0", "0">>
\* the ones by which the service signals a rate limit
RateLimitErrors == {RateLimitMsg, RateLimitCodeMsg}
ApiErrors == RateLimitErrors \cup {ServerErrorMsg}

\* ValueError("No valid JSON in response")
NoJsonMsg == <<"N", "o", " ", "v", "a", "l", "i", "d", " ", "J", "S", "O", "N", " ", "i", "n", " ", "r", "e", "s", "p", "o", "n", "s", "e">>

\* str(json.JSONDecodeError) for an error at offset pos of a one-line text:
\* "...: line 1 column <pos+1> (char <pos>)"
JsonDecodeMsg(pos) ==
    <<"l", "i", "n", "e", " ", "1", " ", "c", "o", "l", "u", "m", "n", " ">> \o Digits(pos + 1) \o <<" ", "(", "c", "h", "a", "r", " ">> \o Digits(pos) \o <<")">>

\* A response text, by what _extract_json reads of it after the fences are
\* stripped: open = text.find('{'), close = text.rfind('}') (-1: absent),
\* bad = offset at which json.loads rejects text[open:close+1] (-1: it parses).
Responses == {
    [open |-> 12, close |-> 90,  bad |-> -1],
    [open |-> -1, close |-> -1,  bad |-> -1],
    [open |-> 7,  close |-> 3,   bad |-> -1],
    [open |-> 0,  close |-> 40,  bad |-> 8],
    [open |-> 0,  close |-> 900, bad |-> 429] }

\* _extract_json(text): [ok |-> TRUE] for a parsed object, else the error raised
ExtractJson(r) ==
    LET start == r.open
        end == r.close + 1
    IN  IF start >= 0 /\ end > start
        THEN IF r.bad = -1 THEN [ok |-> TRUE, err |-> <<>>]
             ELSE [ok |-> FALSE, err |-> JsonDecodeMsg(r.bad)]
        ELSE [ok |-> FALSE, err |-> NoJsonMsg]

\* the test of _analyze_with_retry's except clause on error_str
IsRateLimit(error_str) ==
    Contains(error_str, <<"4", "2", "9">>) \/ Contains(Lower(error_str), <<"r", "a", "t", "e", "_", "l", "i", "m", "i", "t">>)

\* mutant of RetryDecision: a rate-limit error is retried whatever the attempt
RetryDecisionNoCap(error_str, attempt) ==
    IF IsRateLimit(error_str) THEN "retry" ELSE "raise"

\* what the except clause of _analyze_with_retry does with an error raised in
\* attempt `attempt`: "retry" (sleep, continue) or "raise"
RetryDecision(error_str, attempt) ==
    IF IsRateLimit(error_str)
    THEN IF attempt < MaxRetries - 1 THEN "retry" ELSE "raise"
    ELSE "raise"

\* wait_time = (attempt + 1) * 10
WaitTime(attempt) == (attempt + 1) * 10

\* ------------------------------------------------------------- templates
Min(a, b) == IF a <= b THEN a ELSE b

\* detect_templates: one URLTemplate per surviving pattern group; a group is
\* never empty, its pattern is its dict key (so patterns are distinct) and
\* example_urls = url_list[:10].  Pattern k and its first URL are written k.
DetectedTemplates(T) ==
    [k \in 1..T |-> [pattern |-> k, example_urls |-> <<k>>, total_matches |-> 1]]

\* template.example_urls[0] if template.example_urls else None
GetRepresentativeUrl(template) ==
    IF Len(template.example_urls) > 0 THEN template.example_urls[1] ELSE NoUrl

\* templates[:settings.max_templates_to_analyze]
TemplatesToAnalyze == SubSeq(templates, 1, Min(Len(templates), limit))

total_to_analyze == Len(TemplatesToAnalyze)

Jobs == DOMAIN pc

\* ------------------------------------------------------------- progress
\* A fraction is <<numerator, denominator>>, denominator > 0.
Frac(num, den) == <<num, den>>
FracLeq(f, g) == f[1] * g[2] <= g[1] * f[2]

\* mutant of Progress: the share of the jobs still to complete
ProgressOfRemaining(done, total) == Frac(35 * total + 55 * (total - done), 100 * total)

\* progress = 0.35 + (0.55 * (completed / total_to_analyze))
Progress(done, total) == Frac(35 * total + 55 * done, 100 * total)

PhaseLow == Frac(35, 100)
PhaseHigh == Frac(90, 100)

\* -------------------------------------------------------------- outcomes
NavErrorMsg == <<"T", "i", "m", "e", "o", "u", "t">>
PageErrorMsg == <<"T", "a", "r", "g", "e", "t", " ", "c", "l", "o", "s", "e", "d">>

\* the dict analyze() returns on success
SuccessSpec(pattern, url) ==
    [template_pattern |-> pattern, analyzed_url |-> url, status |-> "success",
     error_message |-> NoMessage]

\* 'Page is a 404 error page'
Skipped404Msg == <<"P", "a", "g", "e", " ", "i", "s", " ", "a", " ", "4", "0", "4", " ", "e", "r", "r", "o", "r", " ", "p", "a", "g", "e">>

\* the dict analyze() returns for a 404 page
SkippedSpec(pattern, url) ==
    [template_pattern |-> pattern, analyzed_url |-> url, status |-> "skipped",
     error_message |-> Skipped404Msg]

\* the dict the except clauses of analyze() and of the task build
FailedSpec(pattern, url, error_str) ==
    [template_pattern |-> pattern, analyzed_url |-> url, status |-> "failed",
     error_message |-> error_str]

\* mutant of FilterNone: keeps only the specs of jobs that did not fail
FilterNoneDropsFailed(rs) ==
    SelectSeq(rs, LAMBDA r : r # NoneResult /\ r.status # "failed")

\* [r for r in results if r is not None]
FilterNone(rs) == SelectSeq(rs, LAMBDA r : r # NoneResult)

\* ------------------------------------------------------------ the run
\* history of a run still inside the try block of analyze_site
NoExit ==
    [closes |-> 0,        \* calls of self.browser.close()
     raised_by |-> "",    \* the call whose exception left analyze_site, "" for none
     running |-> {}]      \* the jobs inside `async with semaphore` when close() was called

\* the agent as constructed, with settings.max_templates_to_analyze at most maxT
Constructed(maxT) ==
    /\ phase = "init"
    /\ browserOpen = FALSE
    /\ limit \in 1..maxT
    /\ templates = <<>>
    /\ pc = <<>>
    /\ att = <<>>
    /\ hist = <<>>
    /\ aurl = <<>>
    /\ out = <<>>
    /\ sem = SemaphoreSlots
    /\ completed = 0
    /\ page = 0
    /\ gatt = 0
    /\ progressLog = <<>>
    /\ results = <<>>
    /\ template_specs = <<>>
    /\ report = NoValue
    /\ exits = NoExit

\* TemplateDetector() keeps no state of its own: nothing given, nothing returned
DetectorConstructed ==
    /\ urls = <<>>
    /\ clustered = NoValue
    /\ calls = <<>>

\* SitemapCrawler(max_urls=...): def __init__(self, max_urls: int = 500)
DefaultMaxUrls == 500

NoSitemap == [idx |-> 0, urls |-> {}]
NoCrawl == [to_visit |-> {}, visited |-> {}, urls |-> {}, depth |-> 0]
\* history of a crawler no discover_urls call was made on
NoDiscovery ==
    [call |-> 0,             \* discover_urls calls started
     paths_tried |-> 0,      \* sitemap paths page.goto was called for, this call
     sitemap_yield |-> 0,    \* len(sitemap_urls) of this call
     crawl_ran |-> FALSE,    \* _crawl_links was called in this call
     pages |-> 0,            \* pages page.goto was called for in the crawl of this call
     loaded |-> 0,           \* crawled pages whose links were all read, this call
     failures |-> 0,         \* sitemap resources and pages that raised, this call
     failed_gave |-> {}]     \* URLs a resource added before it raised, this call

\* the crawler as constructed with a budget of budgets
CrawlerConstructed(budgets) ==
    /\ max_urls \in budgets
    /\ discovered_urls = {}
    /\ dpc = "idle"
    /\ base_url = <<>>
    /\ sitemap = NoSitemap
    /\ crawl = NoCrawl
    /\ result = NoValue
    /\ dhist = NoDiscovery

\* the locals of navigate when no call is in progress
NoNavigation ==
    [pos |-> "idle",          \* "idle", "goto", "fallback", "settle", "sleep"
     url |-> NoUrl,
     attempt |-> 0,
     last_error |-> NoMessage,
     outcome |-> "",          \* how the last call ended: "returned", "raised"
     raised |-> NoMessage]    \* str(e) of the exception the last call raised

\* history of a BrowserManager navigate was not called on
NoNavLog ==
    [calls |-> 0,       \* navigate calls started
     attempts |-> 0,    \* iterations of the retry loop started, this call
     waits |-> 0,       \* 3-second sleeps started, this call
     errors |-> <<>>]   \* str(e) of the exception that ended each failed attempt

\* BrowserManager(): no page yet, no navigation made
NavigatorConstructed == nav = NoNavigation /\ navlog = NoNavLog

Init == Constructed(MaxTemplates) /\ DetectorConstructed /\ CrawlerConstructed({DefaultMaxUrls}) /\ NavigatorConstructed

jobVars == <<pc, att, hist, aurl, out, sem, completed>>

\* finally: await self.browser.close(), reached by a return (origin "") or by
\* the exception of the call origin; close() logs and swallows its own errors
Finally(origin) ==
    /\ browserOpen' = FALSE
    /\ exits' = [closes |-> exits.closes + 1,
                 raised_by |-> origin,
                 running |-> {i \in DOMAIN pc : pc[i] \notin {"pending", "done"}}]
runVars == <<limit, templates, results, template_specs, report, gatt>>

\* Phase 1: progress_callback(0.05, ...); await self.browser.initialize()
InitializeBrowser ==
    /\ phase = "init"
    /\ phase' = "discover"
    /\ browserOpen' = TRUE
    /\ progressLog' = Append(progressLog, Frac(5, 100))
    /\ UNCHANGED <<libVars, exits, jobVars, runVars, page>>

\* browser.initialize() raises: the finally clause runs close() and the run raises
InitializeFails ==
    /\ phase = "init"
    /\ phase' = "raised"
    /\ progressLog' = Append(progressLog, Frac(5, 100))
    /\ Finally("initialize")
    /\ UNCHANGED <<libVars, jobVars, runVars, page>>

\* history of a job that has done nothing yet
NoHistory ==
    [calls |-> 0,            \* llm.ainvoke calls made
     shots |-> 0,            \* screenshots captured
     rlFails |-> 0,          \* attempts the service failed with a rate-limit error
     otherFails |-> 0,       \* attempts that failed for any other reason
     waits |-> <<>>,         \* seconds of each back-off sleep, in order
     detected404 |-> FALSE,  \* _is_404_page returned True
     raised |-> NoMessage]   \* str(e) of the exception that ended navigation or analysis

\* Phases 2-4 up to asyncio.gather: discovery and clustering yield T templates,
\* the first max_templates_to_analyze get a task each.
Begin(maxT) ==
    /\ phase = "discover"
    /\ \E T \in 0..maxT :
        /\ templates' = DetectedTemplates(T)
        /\ LET n == Min(T, limit) IN
            /\ pc' = [i \in 1..n |-> "pending"]
            /\ att' = [i \in 1..n |-> 0]
            /\ hist' = [i \in 1..n |-> NoHistory]
            /\ aurl' = [i \in 1..n |-> NoUrl]
            /\ out' = [i \in 1..n |-> NoValue]
    /\ sem' = SemaphoreSlots
    /\ completed' = 0
    /\ page' = 0
    /\ progressLog' = progressLog \o <<Frac(15, 100), Frac(25, 100), Frac(35, 100)>>
    /\ phase' = "analysis"
    /\ UNCHANGED <<libVars, exits, browserOpen, limit, results, template_specs, report, gatt>>

BeginAnalysis == Begin(MaxTemplates)

\* ------------------------------------------------ analyze_with_semaphore
Template(i) == TemplatesToAnalyze[i]
RepUrl(i) == GetRepresentativeUrl(Template(i))

\* mutant of MayAcquire: a task enters without waiting for a free slot
MayAcquireNoWait(i) ==
    /\ i \in Jobs
    /\ pc[i] = "pending"
    /\ \A j \in Jobs : j < i => pc[j] # "pending"

\* asyncio.Semaphore wakes its waiters first come, first served, and gather
\* starts the tasks in list order.
MayAcquire(i) ==
    /\ i \in Jobs
    /\ pc[i] = "pending"
    /\ sem > 0
    /\ \A j \in Jobs : j < i => pc[j] # "pending"

\* the task leaves `async with semaphore` returning value v
Return(i, v) ==
    /\ out' = [out EXCEPT ![i] = v]
    /\ pc' = [pc EXCEPT ![i] = "done"]

\* async with semaphore: rep_url = ...; if not rep_url: return None;
\* progress_callback(progress, ...); then navigate(rep_url) is awaited.
\* A task with a free slot may take it at any later step: the event loop's
\* order of ready tasks is left open, which covers every order it can choose.
Dispatch(i) ==
    /\ phase = "analysis"
    /\ MayAcquire(i)
    /\ IF RepUrl(i) = NoUrl
       THEN /\ Return(i, NoneResult)
            /\ UNCHANGED <<sem, progressLog>>
       ELSE /\ sem' = sem - 1
            /\ progressLog' = Append(progressLog, Progress(completed, total_to_analyze))
            /\ pc' = [pc EXCEPT ![i] = "nav"]
            /\ out' = out
    /\ att' = [att EXCEPT ![i] = 0]
    /\ UNCHANGED <<libVars, exits, phase, browserOpen, hist, aurl, completed, page, runVars>>

\* navigate(): both page.goto calls of an attempt fail and an attempt remains:
\* sleep 3 s and try again.  A failed load may or may not have replaced the page.
NavRetry(i) ==
    /\ i \in Jobs
    /\ pc[i] = "nav"
    /\ att[i] < NavRetries - 1
    /\ att' = [att EXCEPT ![i] = att[i] + 1]
    /\ page' \in {page, RepUrl(i)}
    /\ UNCHANGED <<libVars, exits, phase, browserOpen, pc, hist, aurl, out, sem, completed,
                   progressLog, runVars>>

\* mutant of TaskCatch: the except clause logs the error and returns nothing
TaskCatchReturnsNone(i, error_str) == NoneResult

\* what the task's except clause returns for an exception of navigate/analyze
TaskCatch(i, error_str) == FailedSpec(Template(i).pattern, RepUrl(i), error_str)

\* mutant of NavGiveUp: the failed job gives its slot back and queues again
NavGiveUpRequeues(i) ==
    /\ i \in Jobs
    /\ pc[i] = "nav"
    /\ att[i] = NavRetries - 1
    /\ pc' = [pc EXCEPT ![i] = "pending"]
    /\ att' = [att EXCEPT ![i] = 0]
    /\ sem' = sem + 1
    /\ UNCHANGED <<libVars, exits, phase, browserOpen, hist, aurl, out, completed, page, progressLog,
                   limit, templates, results, template_specs, report, gatt>>

\* navigate(): the last attempt fails, last_error is raised; the task's except
\* clause counts the job and returns the failed spec, releasing the slot.
NavGiveUp(i) ==
    /\ i \in Jobs
    /\ pc[i] = "nav"
    /\ att[i] = NavRetries - 1
    /\ page' \in {page, RepUrl(i)}
    /\ completed' = completed + 1
    /\ Return(i, TaskCatch(i, NavErrorMsg))
    /\ hist' = [hist EXCEPT ![i].raised = NavErrorMsg]
    /\ att' = [att EXCEPT ![i] = 0]
    /\ sem' = sem + 1
    /\ UNCHANGED <<libVars, exits, phase, browserOpen, aurl, progressLog, runVars>>

\* navigate(): an attempt loads the page; the settle sleeps follow
NavOk(i) ==
    /\ i \in Jobs
    /\ pc[i] = "nav"
    /\ page' = RepUrl(i)
    /\ pc' = [pc EXCEPT ![i] = "settle"]
    /\ att' = [att EXCEPT ![i] = 0]
    /\ UNCHANGED <<libVars, exits, phase, browserOpen, hist, aurl, out, sem, completed,
                   progressLog, runVars>>

\* analyze(): url = page.url; then page.title() is awaited
AnalyzeStart(i) ==
    /\ i \in Jobs
    /\ pc[i] = "settle"
    /\ aurl' = [aurl EXCEPT ![i] = page]
    /\ pc' = [pc EXCEPT ![i] = "title"]
    /\ UNCHANGED <<libVars, exits, phase, browserOpen, att, hist, out, sem, completed, page,
                   progressLog, runVars>>

\* analyze() has returned spec: completed += 1, then the cool-down sleep
AnalysisReturned(i, spec) ==
    /\ completed' = completed + 1
    /\ out' = [out EXCEPT ![i] = spec]
    /\ att' = [att EXCEPT ![i] = 0]
    /\ pc' = [pc EXCEPT ![i] = "cooldown"]

\* the dict analyze()'s except clause returns: analyzed_url is page.url then
AnalyzeCatch(i, error_str) == FailedSpec(Template(i).pattern, page, error_str)

\* analyze() raises error_str inside its try block
AnalysisRaised(i, h, error_str) ==
    /\ AnalysisReturned(i, AnalyzeCatch(i, error_str))
    /\ hist' = [hist EXCEPT ![i] = [h EXCEPT !.raised = error_str]]

\* mutant of TitleReadFrom: a 404 page is logged and analysed all the same
TitleReadFromNoSkip(i, titles) ==
    /\ i \in Jobs
    /\ pc[i] = "title"
    /\ \E title \in titles :
        /\ hist' = [hist EXCEPT ![i].detected404 = Is404Page(title)]
        /\ pc' = [pc EXCEPT ![i] = "capture"]
    /\ UNCHANGED <<libVars, exits, phase, browserOpen, att, aurl, out, sem, completed, page, progressLog,
                   limit, templates, results, template_specs, report, gatt>>

\* analyze(): the title arrives; a 404 page is skipped, else capture begins
TitleReadFrom(i, titles) ==
    /\ i \in Jobs
    /\ pc[i] = "title"
    /\ \E title \in titles :
        IF Is404Page(title)
        THEN /\ AnalysisReturned(i, SkippedSpec(Template(i).pattern, aurl[i]))
             /\ hist' = [hist EXCEPT ![i].detected404 = TRUE]
        ELSE /\ pc' = [pc EXCEPT ![i] = "capture"]
             /\ UNCHANGED <<out, completed, att, hist>>
    /\ UNCHANGED <<libVars, exits, phase, browserOpen, aurl, sem, page, progressLog, runVars>>

TitleRead(i) == TitleReadFrom(i, Titles)

\* analyze(): page.title() raises
TitleRaises(i) ==
    /\ i \in Jobs
    /\ pc[i] = "title"
    /\ AnalysisRaised(i, hist[i], PageErrorMsg)
    /\ UNCHANGED <<libVars, exits, phase, browserOpen, aurl, sem, page, progressLog, runVars>>

\* analyze(): screenshot and DOM are captured and saved; _analyze_with_retry
\* starts attempt 0 and awaits llm.ainvoke
Capture(i) ==
    /\ i \in Jobs
    /\ pc[i] = "capture"
    /\ hist' = [hist EXCEPT ![i].shots = @ + 1, ![i].calls = @ + 1]
    /\ att' = [att EXCEPT ![i] = 0]
    /\ pc' = [pc EXCEPT ![i] = "llm"]
    /\ UNCHANGED <<libVars, exits, phase, browserOpen, aurl, out, sem, completed, page,
                   progressLog, runVars>>

\* analyze(): page.screenshot / page.content / write_bytes raises
CaptureRaises(i) ==
    /\ i \in Jobs
    /\ pc[i] = "capture"
    /\ AnalysisRaised(i, hist[i], PageErrorMsg)
    /\ UNCHANGED <<libVars, exits, phase, browserOpen, aurl, sem, page, progressLog, runVars>>

\* _analyze_with_retry's except clause for error_str, h the history that
\* counts this failure: back off and continue, or raise into analyze()'s
AttemptFailed(i, h, error_str) ==
    IF RetryDecision(error_str, att[i]) = "retry"
    THEN /\ pc' = [pc EXCEPT ![i] = "backoff"]
         /\ hist' = [hist EXCEPT ![i] = [h EXCEPT !.waits = Append(@, WaitTime(att[i]))]]
         /\ UNCHANGED <<out, completed, att>>
    ELSE AnalysisRaised(i, h, error_str)

\* llm.ainvoke returns a response; _extract_json parses it or raises
LlmResponds(i) ==
    /\ i \in Jobs
    /\ pc[i] = "llm"
    /\ \E r \in Responses :
        LET parsed == ExtractJson(r) IN
        IF parsed.ok
        THEN /\ AnalysisReturned(i, SuccessSpec(Template(i).pattern, aurl[i]))
             /\ hist' = hist
        ELSE AttemptFailed(i, [hist[i] EXCEPT !.otherFails = @ + 1], parsed.err)
    /\ UNCHANGED <<libVars, exits, phase, browserOpen, aurl, sem, page, progressLog, runVars>>

\* llm.ainvoke raises
LlmRaises(i) ==
    /\ i \in Jobs
    /\ pc[i] = "llm"
    /\ \E e \in ApiErrors :
        AttemptFailed(i, IF e \in RateLimitErrors
                         THEN [hist[i] EXCEPT !.rlFails = @ + 1]
                         ELSE [hist[i] EXCEPT !.otherFails = @ + 1], e)
    /\ UNCHANGED <<libVars, exits, phase, browserOpen, aurl, sem, page, progressLog, runVars>>

\* Exception("Failed after all retries")
ExhaustedMsg == <<"F", "a", "i", "l", "e", "d", " ", "a", "f", "t", "e", "r", " ", "a", "l", "l", " ", "r", "e", "t", "r", "i", "e", "s">>

\* for attempt in range(max_retries): is there an iteration after `attempt`
LoopContinues(attempt) == attempt + 1 < MaxRetries

\* the back-off sleep ends and the loop continues: the next attempt's
\* llm.ainvoke, or the raise after the loop
BackoffEnds(i) ==
    /\ i \in Jobs
    /\ pc[i] = "backoff"
    /\ IF LoopContinues(att[i])
       THEN /\ att' = [att EXCEPT ![i] = att[i] + 1]
            /\ hist' = [hist EXCEPT ![i].calls = @ + 1]
            /\ pc' = [pc EXCEPT ![i] = "llm"]
            /\ UNCHANGED <<out, completed>>
       ELSE AnalysisRaised(i, hist[i], ExhaustedMsg)
    /\ UNCHANGED <<libVars, exits, phase, browserOpen, aurl, sem, page, progressLog, runVars>>

\* the cool-down sleep ends: return spec_data and release the slot
CooldownEnds(i) ==
    /\ i \in Jobs
    /\ pc[i] = "cooldown"
    /\ pc' = [pc EXCEPT ![i] = "done"]
    /\ sem' = sem + 1
    /\ UNCHANGED <<libVars, exits, phase, browserOpen, att, hist, aurl, out, completed, page,
                   progressLog, runVars>>

\* ----------------------------------------------------- gather and phase 5
\* mutant of Gathered: the return values in reverse task order
GatheredReversed ==
    [i \in 1..Len(TemplatesToAnalyze) |-> out[Len(TemplatesToAnalyze) + 1 - i]]

\* asyncio.gather(*tasks): the tasks' return values in task order
Gathered == [i \in 1..Len(TemplatesToAnalyze) |-> out[i]]

\* results = await asyncio.gather(*tasks), every task having returned a
\* value; template_specs = [...]; progress_callback(0.90, ...); then
\* navigate(target_url) is awaited
GatherReturns ==
    /\ phase = "analysis"
    /\ \A i \in Jobs : pc[i] = "done" /\ out[i].status # "raised"
    /\ results' = Gathered
    /\ template_specs' = FilterNone(results')
    /\ progressLog' = Append(progressLog, PhaseHigh)
    /\ gatt' = 0
    /\ phase' = "global"
    /\ UNCHANGED <<libVars, exits, browserOpen, limit, templates, report, jobVars, page>>

\* navigate(target_url): an attempt fails and one remains
GlobalNavRetry ==
    /\ phase = "global"
    /\ gatt < NavRetries - 1
    /\ gatt' = gatt + 1
    /\ UNCHANGED <<libVars, exits, phase, browserOpen, limit, templates, results, template_specs, report,
                   jobVars, page, progressLog>>

\* navigate(target_url) raises: the finally clause closes the browser
GlobalNavGiveUp ==
    /\ phase = "global"
    /\ gatt = NavRetries - 1
    /\ phase' = "raised"
    /\ Finally("navigate")
    /\ UNCHANGED <<libVars, runVars, jobVars, page, progressLog>>

\* SiteArchitecture(templates=templates, template_specs=template_specs, ...)
BuildReport ==
    [status |-> "built",
     unique_templates_identified |-> Len(templates),
     templates |-> templates,
     template_specs |-> template_specs]

\* navigate(target_url) succeeds; the report is assembled, saved and returned,
\* and the finally clause closes the browser
GlobalNavOk ==
    /\ phase = "global"
    /\ page' = 0
    /\ report' = BuildReport
    /\ progressLog' = Append(progressLog, Frac(100, 100))
    /\ phase' = "returned"
    /\ Finally("")
    /\ UNCHANGED <<libVars, limit, templates, results, template_specs, gatt, jobVars>>

Next ==
    \/ InitializeBrowser
    \/ InitializeFails
    \/ BeginAnalysis
    \/ \E i \in 1..MaxTemplates : Dispatch(i)
    \/ \E i \in 1..MaxTemplates : NavRetry(i)
    \/ \E i \in 1..MaxTemplates : NavGiveUp(i)
    \/ \E i \in 1..MaxTemplates : NavOk(i)
    \/ \E i \in 1..MaxTemplates : AnalyzeStart(i)
    \/ \E i \in 1..MaxTemplates : TitleRead(i)
    \/ \E i \in 1..MaxTemplates : TitleRaises(i)
    \/ \E i \in 1..MaxTemplates : Capture(i)
    \/ \E i \in 1..MaxTemplates : CaptureRaises(i)
    \/ \E i \in 1..MaxTemplates : LlmResponds(i)
    \/ \E i \in 1..MaxTemplates : LlmRaises(i)
    \/ \E i \in 1..MaxTemplates : BackoffEnds(i)
    \/ \E i \in 1..MaxTemplates : CooldownEnds(i)
    \/ GatherReturns
    \/ GlobalNavRetry
    \/ GlobalNavGiveUp
    \/ GlobalNavOk

Spec == Init /\ [][Next]_vars

\* Runs of up to SlotTemplates jobs, enough to fill the semaphore, on a site
\* whose pages all carry an error title: a job ends skipped or, when its
\* navigation fails, failed, and the analysis service is never called.
InitSlots == Constructed(SlotTemplates) /\ DetectorConstructed /\ CrawlerConstructed({DefaultMaxUrls}) /\ NavigatorConstructed

BeginAnalysisSlots == Begin(SlotTemplates)

TitleReadError(i) == TitleReadFrom(i, {t \in Titles : Is404Page(t)})

NextSlots ==
    \/ InitializeBrowser
    \/ InitializeFails
    \/ BeginAnalysisSlots
    \/ \E i \in 1..SlotTemplates : Dispatch(i)
    \/ \E i \in 1..SlotTemplates : NavRetry(i)
    \/ \E i \in 1..SlotTemplates : NavGiveUp(i)
    \/ \E i \in 1..SlotTemplates : NavOk(i)
    \/ \E i \in 1..SlotTemplates : AnalyzeStart(i)
    \/ \E i \in 1..SlotTemplates : TitleReadError(i)
    \/ \E i \in 1..SlotTemplates : CooldownEnds(i)
    \/ GatherReturns
    \/ GlobalNavRetry
    \/ GlobalNavGiveUp
    \/ GlobalNavOk

SpecSlots == InitSlots /\ [][NextSlots]_vars

\* ================================================================ claims
Gathering == phase \in {"global", "returned"}

\* job i holds a slot: it is inside `async with semaphore`
InSlot(i) == pc[i] \notin {"pending", "done"}

\* the task of job i has returned
Resolved(i) == pc[i] = "done"

\* C1: once gather has returned, the number of outcome records (template_specs)
\* equals the number of templates submitted for analysis, whatever the jobs'
\* outcomes were.
C1_OutcomeCount ==
    Gathering => Len(template_specs) = Len(TemplatesToAnalyze)

\* a run of two jobs has returned with one failed and one skipped outcome
C1_Witness ==
    /\ phase = "returned"
    /\ Len(TemplatesToAnalyze) = 2
    /\ \E i, j \in 1..Len(template_specs) :
        /\ template_specs[i].status = "failed"
        /\ template_specs[j].status = "skipped"

\* C2: a job's outcome carries its own template's pattern, and after gather the
\* outcome at position i is the one of the template at position i, in whatever
\* order the jobs completed.
C2_OutcomeOrder ==
    /\ \A i \in Jobs :
        Resolved(i) => out[i].template_pattern = TemplatesToAnalyze[i].pattern
    /\ Gathering =>
        /\ DOMAIN template_specs = DOMAIN TemplatesToAnalyze
        /\ \A i \in DOMAIN template_specs :
            /\ template_specs[i] = out[i]
            /\ template_specs[i].template_pattern = TemplatesToAnalyze[i].pattern

\* job 2 has completed while job 1, dispatched first, is still running
C2_Witness ==
    /\ Jobs = {1, 2}
    /\ Resolved(2)
    /\ InSlot(1)

\* C3: at most 3 jobs are inside the slot-guarded section, the semaphore
\* counts exactly the free slots, and so a job that finds no free slot stays
\* pending.
C3_BoundedParallelism ==
    /\ Cardinality({i \in Jobs : InSlot(i)}) <= SemaphoreSlots
    /\ sem = SemaphoreSlots - Cardinality({i \in Jobs : InSlot(i)})

\* all 3 slots are taken and a fourth job waits
C3_Witness ==
    /\ Cardinality({i \in Jobs : InSlot(i)}) = SemaphoreSlots
    /\ \E i \in Jobs : pc[i] = "pending"

\* the outcome of job i is decided: analyze() or the except clause produced it
Decided(i) == pc[i] \in {"cooldown", "done"}

\* C4: a job makes at most 3 external-analysis calls, and once 3 calls have all
\* failed with a rate-limit error the job is decided Failed: it neither calls
\* again nor waits.
C4_RateLimitRetryCap ==
    \A i \in Jobs :
        /\ hist[i].calls <= 3
        /\ (hist[i].rlFails = 3 /\ hist[i].calls = 3) =>
            (Decided(i) /\ out[i].status = "failed")

\* a job whose 3 calls all hit the rate limit has returned Failed
C4_Witness ==
    \E i \in Jobs :
        /\ hist[i].rlFails = 3
        /\ hist[i].calls = 3
        /\ Resolved(i)
        /\ out[i].status = "failed"

\* C5: once an attempt has failed for a reason other than a rate-limit error of
\* the service (a response without parsable JSON included), the job is decided
\* Failed without another call; when that was its first attempt it made
\* exactly one call.
C5_NonRateLimitFailureIsFinal ==
    \A i \in Jobs :
        hist[i].otherFails > 0 =>
            /\ Decided(i)
            /\ out[i].status = "failed"
            /\ hist[i].otherFails = 1
            /\ hist[i].rlFails = 0 => hist[i].calls = 1

\* C6: a job whose navigation or analysis raised is decided Failed with the
\* error's message; the step in which it raises changes no other job; and
\* gather returns one terminal outcome per job.
C6_Decided ==
    /\ \A i \in Jobs :
        hist[i].raised # NoMessage =>
            /\ Decided(i)
            /\ out[i].status = "failed"
            /\ out[i].error_message = hist[i].raised
    /\ Gathering =>
        /\ DOMAIN results = Jobs
        /\ \A i \in Jobs : results[i].status \in {"success", "failed", "skipped"}

C6_Isolated ==
    \A i \in Jobs :
        (i \in DOMAIN hist' /\ hist'[i].raised # hist[i].raised) =>
            \A j \in Jobs \ {i} :
                /\ pc'[j] = pc[j]
                /\ out'[j] = out[j]
                /\ hist'[j] = hist[j]

C6_FailureIsolation == [](C6_Decided) /\ [][C6_Isolated]_vars

\* the run has returned with job i failed in navigation and a sibling succeeded
C6_Witness ==
    /\ phase = "returned"
    /\ \E i, j \in Jobs :
        /\ hist[i].raised = NavErrorMsg
        /\ out[i].status = "failed"
        /\ out[j].status = "success"

\* the state of job i in the terms of the specification
JobState(p, o) ==
    IF p = "pending" THEN "Pending"
    ELSE IF p = "done" THEN o.status
    ELSE "Running"

\* C7: a job moves only Pending -> Running -> one of success, failed, skipped,
\* and its outcome never changes once it is terminal.
C7_Step ==
    \A i \in Jobs \cap DOMAIN pc' :
        LET a == JobState(pc[i], out[i])
            b == JobState(pc'[i], out'[i])
        IN  \/ a = b /\ (a \notin {"Pending", "Running"} => out'[i] = out[i])
            \/ a = "Pending" /\ b = "Running"
            \/ a = "Running" /\ b \in {"success", "failed", "skipped"}

C7_JobStateMachine == [][C7_Step]_vars

\* both jobs are terminal, in different terminal states
C7_Witness ==
    /\ Jobs = {1, 2}
    /\ Resolved(1) /\ Resolved(2)
    /\ out[1].status = "failed"
    /\ out[2].status = "success"

\* C8: every template listed in the report has an outcome record in the
\* report's per-template outcome list.
C8_ReportCoversTemplates ==
    phase = "returned" =>
        \A k \in DOMAIN report.templates :
            \E r \in DOMAIN report.template_specs :
                report.template_specs[r].template_pattern = report.templates[k].pattern

\* the number of jobs dispatched so far
Dispatched == Cardinality({i \in Jobs : pc[i] # "pending"})

\* C9: the fractions reported as jobs are dispatched (the entries of the log
\* after the 0.35 that opens the phase) are non-decreasing in call order and
\* lie in [0.35, 0.90].
C9_ProgressMonotone ==
    \A k \in 5..(4 + Dispatched) :
        /\ k <= Len(progressLog)
        /\ FracLeq(PhaseLow, progressLog[k])
        /\ FracLeq(progressLog[k], PhaseHigh)
        /\ FracLeq(progressLog[k - 1], progressLog[k])

\* three jobs were dispatched at 0.35 and the fourth, dispatched after a job
\* completed, reported a strictly larger fraction
C9_Witness ==
    /\ Dispatched = 4
    /\ Len(progressLog) >= 8
    /\ \A k \in 5..7 : FracLeq(progressLog[k], PhaseLow)
    /\ ~FracLeq(progressLog[8], progressLog[7])

\* C10: a job whose page _is_404_page detected is decided skipped with the 404
\* reason, having made no external-analysis call and captured no screenshot.
C10_404Skipped ==
    \A i \in Jobs :
        hist[i].detected404 =>
            /\ Decided(i)
            /\ out[i].status = "skipped"
            /\ out[i].error_message = Skipped404Msg
            /\ hist[i].calls = 0
            /\ hist[i].shots = 0

\* a job whose page was detected as a 404 page has returned
C10_Witness ==
    \E i \in Jobs : hist[i].detected404 /\ Resolved(i) /\ out[i].status = "skipped"

\* ==================================================== TemplateDetector
\* ---------------------------------------------------- urllib.parse.urlparse
\* first index k >= from with s[k] \in cs, or Len(s) + 1
RECURSIVE Find(_, _, _)
Find(s, cs, from) ==
    IF from > Len(s) THEN Len(s) + 1
    ELSE IF s[from] \in cs THEN from
    ELSE Find(s, cs, from + 1)

\* the part of s before the first character of cs, and the part after it
Before(s, cs) == SubSeq(s, 1, Find(s, cs, 1) - 1)
After(s, cs) == SubSeq(s, Find(s, cs, 1) + 1, Len(s))

\* urlparse(url): the scheme ends at the first ':', a netloc follows "//" up to
\* the first of "/?#", the fragment starts at the first '#' of what is left,
\* the query at the first '?' before it, and the path is the rest.
HasScheme(url) == Find(url, {":"}, 1) \in 2..Len(url)
AfterScheme(url) == IF HasScheme(url) THEN After(url, {":"}) ELSE url
HasNetloc(rest) == Len(rest) >= 2 /\ rest[1] = "/" /\ rest[2] = "/"
NetlocEnd(rest) == Find(rest, {"/", "?", "#"}, 3)
AfterNetloc(rest) == IF HasNetloc(rest) THEN SubSeq(rest, NetlocEnd(rest), Len(rest)) ELSE rest

\* mutant of UrlParse: the query is left in the path
UrlParseKeepsQuery(url) ==
    LET rest == AfterScheme(url)
        tail == AfterNetloc(rest)
    IN  [scheme |-> IF HasScheme(url) THEN Lower(Before(url, {":"})) ELSE <<>>,
         netloc |-> IF HasNetloc(rest) THEN SubSeq(rest, 3, NetlocEnd(rest) - 1) ELSE <<>>,
         path |-> Before(tail, {"#"}),
         query |-> <<>>,
         fragment |-> After(tail, {"#"})]

UrlParse(url) ==
    LET rest == AfterScheme(url)
        tail == AfterNetloc(rest)
    IN  [scheme |-> IF HasScheme(url) THEN Lower(Before(url, {":"})) ELSE <<>>,
         netloc |-> IF HasNetloc(rest) THEN SubSeq(rest, 3, NetlocEnd(rest) - 1) ELSE <<>>,
         path |-> Before(Before(tail, {"#"}), {"?"}),
         query |-> After(Before(tail, {"#"}), {"?"}),
         fragment |-> After(tail, {"#"})]

\* ------------------------------------------------------ _extract_pattern
\* path.rstrip('/')
RECURSIVE RStripSlash(_)
RStripSlash(path) ==
    IF Len(path) > 0 /\ path[Len(path)] = "/"
    THEN RStripSlash(SubSeq(path, 1, Len(path) - 1))
    ELSE path

\* path.split('/')
RECURSIVE Split(_)
Split(path) ==
    LET slash == Find(path, {"/"}, 1) IN
    IF slash > Len(path) THEN <<path>>
    ELSE <<SubSeq(path, 1, slash - 1)>> \o Split(SubSeq(path, slash + 1, Len(path)))

HexChar == {"0", "1", "2", "3", "4", "5", "6", "7", "8", "9",
            "a", "b", "c", "d", "e", "f", "A", "B", "C", "D", "E", "F"}

AllDigits(seg) == \A k \in 1..Len(seg) : \E d \in 1..10 : seg[k] = DigitChar[d]

\* seg.isdigit(): not empty and every character a digit
IsDigit(seg) == Len(seg) > 0 /\ AllDigits(seg)

\* _is_uuid(s): ^[0-9a-f]{8}-[0-9a-f]{4}-[0-9a-f]{4}-[0-9a-f]{4}-[0-9a-f]{12}$, re.I
IsUuid(s) ==
    /\ Len(s) = 36
    /\ \A k \in 1..36 :
        IF k \in {9, 14, 19, 24} THEN s[k] = "-" ELSE s[k] \in HexChar

\* re.match(r'^\d{4}$', seg)
IsYear(seg) == Len(seg) = 4 /\ AllDigits(seg)

IdToken == <<"{", "i", "d", "}">>
UuidToken == <<"{", "u", "u", "i", "d", "}">>
YearToken == <<"{", "y", "e", "a", "r", "}">>
SlugToken == <<"{", "s", "l", "u", "g", "}">>

\* mutant of Classify: the 4-digit rule is tried before the all-digits rule
ClassifyYearFirst(seg) ==
    IF IsYear(seg) THEN YearToken
    ELSE IF IsDigit(seg) THEN IdToken
    ELSE IF IsUuid(seg) THEN UuidToken
    ELSE IF \E k \in 1..Len(seg) : seg[k] \in {"-", "_"} THEN SlugToken
    ELSE seg

\* the if/elif chain of _extract_pattern for one non-empty segment
Classify(seg) ==
    IF IsDigit(seg) THEN IdToken
    ELSE IF IsUuid(seg) THEN UuidToken
    ELSE IF IsYear(seg) THEN YearToken
    ELSE IF \E k \in 1..Len(seg) : seg[k] \in {"-", "_"} THEN SlugToken
    ELSE seg

\* '/'.join(segments)
RECURSIVE Join(_)
Join(segments) ==
    IF Len(segments) = 0 THEN <<>>
    ELSE IF Len(segments) = 1 THEN segments[1]
    ELSE segments[1] \o <<"/">> \o Join(Tail(segments))

\* the loop of _extract_pattern: empty segments are skipped
RECURSIVE Segments(_)
Segments(parts) ==
    IF Len(parts) = 0 THEN <<>>
    ELSE IF Len(parts[1]) = 0 THEN Segments(Tail(parts))
    ELSE <<Classify(parts[1])>> \o Segments(Tail(parts))

\* _extract_pattern(url)
ExtractPattern(url) ==
    LET path == RStripSlash(UrlParse(url).path) IN
    IF Len(path) = 0 THEN <<"/">>
    ELSE <<"/">> \o Join(Segments(Split(path)))

\* str.count(c)
Count(s, c) == Cardinality({k \in 1..Len(s) : s[k] = c})

\* ------------------------------------------------------ detect_templates
\* url_list[:10]
ExampleCap == 10
\* p.count('/') <= 2
ShallowSlashes == 2

\* the urls of us whose pattern is pattern, in the order of us
RECURSIVE UrlsOf(_, _)
UrlsOf(us, pattern) ==
    IF Len(us) = 0 THEN <<>>
    ELSE (IF ExtractPattern(us[1]) = pattern THEN <<us[1]>> ELSE <<>>)
         \o UrlsOf(Tail(us), pattern)

\* groups = defaultdict(list) filled in the order of urls: the keys in the
\* order of their first URL
RECURSIVE PatternsOf(_, _)
PatternsOf(us, seen) ==
    IF Len(us) = 0 THEN <<>>
    ELSE LET pattern == ExtractPattern(us[1]) IN
         IF pattern \in seen THEN PatternsOf(Tail(us), seen)
         ELSE <<pattern>> \o PatternsOf(Tail(us), seen \cup {pattern})

\* mutant of Keep: every group of one URL is dropped
KeepNoSingles(p, u) == Len(u) > 1

\* the filter of _group_by_pattern: len(u) > 1 or p.count('/') <= 2
Keep(p, u) == Len(u) > 1 \/ Count(p, "/") <= ShallowSlashes

\* _group_by_pattern(urls): the dict as the sequence of its items
GroupByPattern(us) ==
    LET keys == PatternsOf(us, {})
        groups == [k \in 1..Len(keys) |-> [p |-> keys[k], u |-> UrlsOf(us, keys[k])]]
        kept(g) == Keep(g.p, g.u)
    IN  SelectSeq(groups, kept)

\* mutant of URLTemplate: the examples are url_list[1:10]
URLTemplateSkipsFirst(pattern, url_list) ==
    [pattern |-> pattern,
     example_urls |-> SubSeq(url_list, 2, Min(ExampleCap, Len(url_list))),
     parameter_count |-> Count(pattern, "{"),
     total_matches |-> Len(url_list)]

\* URLTemplate(pattern=pattern, example_urls=url_list[:10], ...,
\*             parameter_count=pattern.count('{'), total_matches=len(url_list))
URLTemplate(pattern, url_list) ==
    [pattern |-> pattern,
     example_urls |-> SubSeq(url_list, 1, Min(ExampleCap, Len(url_list))),
     parameter_count |-> Count(pattern, "{"),
     total_matches |-> Len(url_list)]

\* mutant of KeyLeq: the sort key is the parameter count alone
KeyLeqByCount(a, b) == a.parameter_count <= b.parameter_count

\* key(a) <= key(b) for key = lambda t: (t.parameter_count, -t.total_matches)
KeyLeq(a, b) ==
    \/ a.parameter_count < b.parameter_count
    \/ a.parameter_count = b.parameter_count /\ (0 - a.total_matches) <= (0 - b.total_matches)

\* list.sort(key=...) is stable: an element goes behind every element whose
\* key is not larger
RECURSIVE SortTemplates(_)
SortTemplates(ts) ==
    IF Len(ts) <= 1 THEN ts
    ELSE LET front == SortTemplates(SubSeq(ts, 1, Len(ts) - 1))
             t == ts[Len(ts)]
             p == Cardinality({k \in 1..Len(front) : KeyLeq(front[k], t)})
         IN  SubSeq(front, 1, p) \o <<t>> \o SubSeq(front, p + 1, Len(front))

\* detect_templates(urls)
DetectTemplates(us) ==
    LET groups == GroupByPattern(us) IN
    SortTemplates([k \in 1..Len(groups) |-> URLTemplate(groups[k].p, groups[k].u)])

\* ------------------------------------------- the lists the detector is given
\* most URLs of one product family in a list
MaxProducts == 11

Site == <<"h", "t", "t", "p", "s", ":", "/", "/", "h">>
\* https://h/p/<k>
ProductUrl(k) == Site \o <<"/", "p", "/">> \o Digits(k)
RootUrl == Site \o <<"/">>
AboutUrl == Site \o <<"/", "a", "b", "o", "u", "t">>
DeepUrl7 == Site \o <<"/", "a", "/", "b", "/", "7">>
DeepUrl8 == Site \o <<"/", "a", "/", "b", "/", "8">>
\* a sitemap entry with braces in its path
BraceUrl == Site \o <<"/", "t", "/", "{", "x", "}">>
OtherUrls == {RootUrl, AboutUrl, DeepUrl7, DeepUrl8, BraceUrl}

IsProductUrl(u) == \E k \in 1..MaxProducts : u = ProductUrl(k)
Products == Cardinality({k \in 1..Len(urls) : IsProductUrl(urls[k])})
InUrls(u) == \E k \in 1..Len(urls) : urls[k] = u

\* discovery yields one more URL of the product family, next to the others of it
AddProductUrl ==
    /\ clustered.status = "unset"
    /\ Products < MaxProducts
    /\ IF Products = 0 THEN TRUE ELSE IsProductUrl(urls[Len(urls)])
    /\ urls' = Append(urls, ProductUrl(Products + 1))
    /\ UNCHANGED <<agentVars, navVars, crawlerVars, clustered, calls>>

\* discovery yields one more URL of the rest of the site
AddOtherUrl(u) ==
    /\ clustered.status = "unset"
    /\ ~InUrls(u)
    /\ urls' = Append(urls, u)
    /\ UNCHANGED <<agentVars, navVars, crawlerVars, clustered, calls>>

\* templates = self.detector.detect_templates(urls)
DetectTemplatesCall ==
    /\ clustered.status = "unset"
    /\ clustered' = [status |-> "returned", templates |-> DetectTemplates(urls)]
    /\ UNCHANGED <<agentVars, navVars, crawlerVars, urls, calls>>

InitCluster == Constructed(1) /\ DetectorConstructed /\ CrawlerConstructed({DefaultMaxUrls}) /\ NavigatorConstructed

NextCluster ==
    \/ AddProductUrl
    \/ \E u \in OtherUrls : AddOtherUrl(u)
    \/ DetectTemplatesCall

SpecCluster == InitCluster /\ [][NextCluster]_vars

\* ------------------------------------- the URLs _extract_pattern is given
\* most segments in the path of a URL
MaxSegments == 2
\* most _extract_pattern calls in a history
MaxCalls == 2

\* Path segments a site may use, each with the token the classification rules
\* of the detector are to give it (the segment itself when it is a literal;
\* nothing for an empty segment, which is no segment of the pattern).
SegmentCases == {
    [seg |-> <<"4", "2">>, token |-> IdToken],
    [seg |-> <<"2", "0", "2", "4">>, token |-> IdToken],
    [seg |-> <<"1", "2", "3", "e", "4", "5", "6", "7", "-", "e", "8", "9", "b", "-", "1", "2", "d", "3", "-", "a", "4", "5", "6", "-", "4", "2", "6", "6", "1", "4", "1", "7", "4", "0", "0", "0">>,
     token |-> UuidToken],
    [seg |-> <<"1", "2", "3", "E", "4", "5", "6", "7", "-", "E", "8", "9", "B", "-", "1", "2", "D", "3", "-", "A", "4", "5", "6", "-", "4", "2", "6", "6", "1", "4", "1", "7", "4", "0", "0", "0">>,
     token |-> UuidToken],
    [seg |-> <<"1", "2", "3", "e", "4", "5", "6", "7", "-", "e", "8", "9", "b", "-", "1", "2", "d", "3", "-", "a", "4", "5", "6", "-", "4", "2", "6", "6", "1", "4", "1", "7", "4", "0", "0", "g">>,
     token |-> SlugToken],
    [seg |-> <<"m", "y", "-", "p", "o", "s", "t">>, token |-> SlugToken],
    [seg |-> <<"a", "_", "b">>, token |-> SlugToken],
    [seg |-> <<"a", "b", "o", "u", "t">>, token |-> <<"a", "b", "o", "u", "t">>],
    [seg |-> <<"B", "l", "o", "g", "2">>, token |-> <<"B", "l", "o", "g", "2">>],
    [seg |-> <<>>, token |-> <<>>] }

Schemes == {<<"h", "t", "t", "p", "s">>, <<"h", "t", "t", "p">>}
Hosts == {<<"h">>, <<"s", "h", "o", "p", ".", "e", "x", "a", "m", "p", "l", "e">>}
\* a query and a fragment, each with a '/' of its own, or none
Queries == {<<>>, <<"?", "x", "=", "/", "b">>}
Fragments == {<<>>, <<"#", "f", "/">>}

Paths == UNION {[1..n -> SegmentCases] : n \in 0..MaxSegments}

UrlShapes ==
    [scheme : Schemes, host : Hosts, segs : Paths, trailing : BOOLEAN,
     query : Queries, fragment : Fragments]

RECURSIVE RenderPath(_)
RenderPath(segs) ==
    IF Len(segs) = 0 THEN <<>>
    ELSE <<"/">> \o segs[1].seg \o RenderPath(Tail(segs))

\* the URL string of a shape
Render(p) ==
    p.scheme \o <<":", "/", "/">> \o p.host \o RenderPath(p.segs)
        \o (IF p.trailing THEN <<"/">> ELSE <<>>) \o p.query \o p.fragment

\* the shapes that differ from p in scheme, host, query, fragment, trailing
\* slash or the value of one classified segment only
SameShapeAs(p) ==
    {[p EXCEPT !.scheme = s] : s \in Schemes}
        \cup {[p EXCEPT !.host = h] : h \in Hosts}
        \cup {[p EXCEPT !.query = q] : q \in Queries}
        \cup {[p EXCEPT !.fragment = f] : f \in Fragments}
        \cup {[p EXCEPT !.trailing = b] : b \in BOOLEAN}
        \cup UNION {{[p EXCEPT !.segs[k] = c] :
                        c \in {d \in SegmentCases :
                                 /\ d.token = p.segs[k].token
                                 /\ d.token \in {IdToken, UuidToken, SlugToken}}} :
                    k \in 1..Len(p.segs)}

\* the shapes that replace the last segment of p by a segment of another class
OtherShapeThan(p) ==
    IF Len(p.segs) = 0 THEN {}
    ELSE {[p EXCEPT !.segs[Len(p.segs)] = c] :
            c \in {d \in SegmentCases : d.token # p.segs[Len(p.segs)].token}}

\* pattern = self._extract_pattern(url), for the URL of shape p
ExtractPatternCall(p) ==
    /\ Len(calls) < MaxCalls
    /\ calls' = Append(calls, [shape |-> p, url |-> Render(p),
                                pattern |-> ExtractPattern(Render(p))])
    /\ UNCHANGED <<agentVars, navVars, crawlerVars, urls, clustered>>

\* the first URL is any URL
FirstCall ==
    /\ Len(calls) = 0
    /\ \E p \in UrlShapes : ExtractPatternCall(p)

\* a later URL has the shape of the first one, or differs in its last segment
LaterCall ==
    /\ Len(calls) > 0
    /\ \E p \in SameShapeAs(calls[1].shape) \cup OtherShapeThan(calls[1].shape) :
        ExtractPatternCall(p)

NextPattern == FirstCall \/ LaterCall

SpecPattern == InitCluster /\ [][NextPattern]_vars

\* ------------------------------------------------- claims on the detector
Returned == clustered.status = "returned"

\* the number of non-empty '/'-separated segments of a pattern
NumSegments(pattern) ==
    Cardinality({k \in 1..Len(Split(pattern)) : Len(Split(pattern)[k]) > 0})

\* the number of URLs given whose pattern is pattern
MatchCount(pattern) ==
    Cardinality({k \in 1..Len(urls) : ExtractPattern(urls[k]) = pattern})

IsKept(pattern) ==
    \E k \in 1..Len(clustered.templates) : clustered.templates[k].pattern = pattern

\* C11: the pattern of a given URL is among the returned templates exactly
\* when 2 or more URLs map to it or it has at most 2 path segments: shallow
\* singletons are kept, singletons of 3 or more segments are dropped.
C11_ClusterFilter ==
    Returned =>
        \A k \in 1..Len(urls) :
            LET pattern == ExtractPattern(urls[k]) IN
            IsKept(pattern) <=> (MatchCount(pattern) >= 2 \/ NumSegments(pattern) <= 2)

\* one list with a dropped deep singleton, a kept singleton of 2 segments and
\* a kept deep pattern of 2 URLs cannot exist for one pattern, so: a deep
\* singleton dropped beside a kept 2-segment singleton and a kept family
C11_Witness ==
    /\ Returned
    /\ \E i, j, k \in 1..Len(urls) :
        LET a == ExtractPattern(urls[i])
            b == ExtractPattern(urls[j])
            c == ExtractPattern(urls[k])
        IN  /\ NumSegments(a) >= 3 /\ MatchCount(a) = 1 /\ ~IsKept(a)
            /\ NumSegments(b) = 2 /\ MatchCount(b) = 1 /\ IsKept(b)
            /\ MatchCount(c) >= 2 /\ IsKept(c)

\* C12: in the returned sequence no template follows one with a larger
\* parameter count, nor one of equal parameter count with fewer matches.
C12_SortedOutput ==
    Returned =>
        \A i, j \in 1..Len(clustered.templates) :
            i < j =>
                LET a == clustered.templates[i]
                    b == clustered.templates[j]
                IN  /\ ~(b.parameter_count < a.parameter_count)
                    /\ ~(b.parameter_count = a.parameter_count
                         /\ b.total_matches > a.total_matches)

\* the index of the first given URL with this pattern
FirstIndex(pattern) ==
    CHOOSE k \in 1..Len(urls) :
        /\ ExtractPattern(urls[k]) = pattern
        /\ \A j \in 1..(k - 1) : ExtractPattern(urls[j]) # pattern

\* the sort moved a template with more matches in front of one of the same
\* parameter count that was discovered first, behind a template of fewer parameters
C12_Witness ==
    /\ Returned
    /\ \E i, j, k \in 1..Len(clustered.templates) :
        LET a == clustered.templates[i]
            b == clustered.templates[j]
            c == clustered.templates[k]
        IN  /\ i < j /\ j < k
            /\ a.parameter_count < b.parameter_count
            /\ b.parameter_count = c.parameter_count
            /\ b.total_matches > c.total_matches
            /\ FirstIndex(b.pattern) > FirstIndex(c.pattern)

\* the tokens the rules are to give the non-empty segments of a shape
RECURSIVE ExpectedTokens(_)
ExpectedTokens(segs) ==
    IF Len(segs) = 0 THEN <<>>
    ELSE (IF Len(segs[1].seg) = 0 THEN <<>> ELSE <<segs[1].token>>)
         \o ExpectedTokens(Tail(segs))

\* C13: every call returns '/' followed by the tokens of the non-empty
\* segments joined by '/', each segment classified by the first rule that
\* matches (digits: id, so 4 digits too; UUID shape: uuid; '-' or '_': slug;
\* else the segment itself), no token is year, and a path without segments
\* yields '/'.
C13_Classification ==
    \A k \in 1..Len(calls) :
        LET tokens == ExpectedTokens(calls[k].shape.segs) IN
        /\ calls[k].pattern = <<"/">> \o Join(tokens)
        /\ ~Contains(calls[k].pattern, YearToken)

\* a call on a path with a 4-digit segment and a UUID in upper case
C13_Witness ==
    \E k \in 1..Len(calls) :
        /\ Len(calls[k].shape.segs) = 2
        /\ calls[k].shape.segs[1].seg = <<"2", "0", "2", "4">>
        /\ Len(calls[k].shape.segs[2].seg) = 36
        /\ calls[k].shape.segs[2].seg[4] = "E"
        /\ calls[k].pattern = <<"/">> \o IdToken \o <<"/">> \o UuidToken

\* C14: two calls whose URLs have the same sequence of segment classes and
\* literals (whatever their scheme, host, query, fragment, trailing slash and
\* the values of the classified segments) return the same pattern.
C14_ShapeDetermines ==
    \A i, j \in 1..Len(calls) :
        ExpectedTokens(calls[i].shape.segs) = ExpectedTokens(calls[j].shape.segs)
            => calls[i].pattern = calls[j].pattern

\* two calls on different URLs of one shape, the second with a query
C14_Witness ==
    /\ Len(calls) = 2
    /\ calls[1].url # calls[2].url
    /\ Len(calls[1].shape.segs) = 2
    /\ Len(calls[1].shape.query) = 0
    /\ Len(calls[2].shape.query) > 0
    /\ ExpectedTokens(calls[1].shape.segs) = ExpectedTokens(calls[2].shape.segs)
    /\ calls[1].pattern = calls[2].pattern

\* the number of segments of a pattern that are one of the four class tokens
NonLiteralTokens(pattern) ==
    Cardinality({k \in 1..Len(Split(pattern)) :
        Split(pattern)[k] \in {IdToken, UuidToken, YearToken, SlugToken}})

\* C15: every returned template has as examples the first min(10, matches)
\* URLs of its pattern in the order given, at most 10 of them and no more
\* than its matches, and its parameter count is the number of non-literal
\* tokens of its pattern.
C15_TemplateFields ==
    Returned =>
        \A k \in 1..Len(clustered.templates) :
            LET t == clustered.templates[k]
                mapped == UrlsOf(urls, t.pattern)
            IN  /\ t.total_matches = Len(mapped)
                /\ Len(t.example_urls) = Min(10, t.total_matches)
                /\ t.example_urls = SubSeq(mapped, 1, Len(t.example_urls))
                /\ Len(t.example_urls) <= 10
                /\ t.total_matches >= Len(t.example_urls)
                /\ t.parameter_count = NonLiteralTokens(t.pattern)

\* ================================================================ SitemapCrawler
\* ------------------------------------------------------------ program constants
\* if len(self.discovered_urls) < 20
SitemapThreshold == 20
\* sitemap_paths = ['/sitemap.xml', '/sitemap_index.xml', '/sitemap-index.xml']
SitemapPaths == 3
\* if len(urls) > 100: break
SitemapStop == 100
\* _crawl_links(self, page, base_url, max_depth: int = 2)
max_depth == 2
\* if len(visited) < 15
FrontierCap == 15

\* ------------------------------------------------------------------ urlparse
\* urlparse raises ValueError("Invalid IPv6 URL") when the netloc has one of
\* '[' and ']' without the other
UrlParseRaises(url) ==
    LET netloc == UrlParse(url).netloc
    IN  (Find(netloc, {"["}, 1) <= Len(netloc)) # (Find(netloc, {"]"}, 1) <= Len(netloc))

Whitespace == {" ", "\t", "\n"}

\* str.strip()
RECURSIVE Strip(_)
Strip(s) ==
    IF Len(s) = 0 THEN s
    ELSE IF s[1] \in Whitespace THEN Strip(Tail(s))
    ELSE IF s[Len(s)] \in Whitespace THEN Strip(SubSeq(s, 1, Len(s) - 1))
    ELSE s

\* ------------------------------------------------------- _parse_sitemap_xml
\* A document is [well_formed, locs]: whether ET.fromstring accepts it, and the
\* texts of its <loc> elements in document order (<<>> for an empty element).
\* The loop over root.findall('.//loc'): urls so far in acc; a loc whose
\* urlparse raises ends the loop and the except clause keeps acc.
RECURSIVE LocUrls(_, _, _)
LocUrls(locs, base_domain, acc) ==
    IF Len(locs) = 0 THEN acc
    ELSE LET url == Strip(Head(locs)) IN
         IF Len(Head(locs)) = 0 THEN LocUrls(Tail(locs), base_domain, acc)
         ELSE IF UrlParseRaises(url) THEN acc
         ELSE IF UrlParse(url).netloc = base_domain
              THEN LocUrls(Tail(locs), base_domain, acc \cup {url})
              ELSE LocUrls(Tail(locs), base_domain, acc)

ParseSitemapXml(xml_content, base) ==
    IF ~xml_content.well_formed THEN {}
    ELSE LocUrls(xml_content.locs, UrlParse(base).netloc, {})

\* an exception was raised (and caught) while the document was parsed
ParseRaises(xml_content) ==
    \/ ~xml_content.well_formed
    \/ \E k \in 1..Len(xml_content.locs) :
          Len(xml_content.locs[k]) > 0 /\ UrlParseRaises(Strip(xml_content.locs[k]))

\* ------------------------------------------------------------- _crawl_links
\* f"{urlparse(link).scheme}://{urlparse(link).netloc}{urlparse(link).path}"
Clean(link) ==
    UrlParse(link).scheme \o <<":", "/", "/">> \o UrlParse(link).netloc \o UrlParse(link).path

\* for link in links: st holds to_visit and urls so far; a link whose urlparse
\* raises leaves the loop through the bare except, keeping what was added
RECURSIVE AddLinks(_, _, _, _)
AddLinks(links, nvisited, base_domain, st) ==
    IF Len(links) = 0 THEN st
    ELSE IF UrlParseRaises(Head(links)) THEN [st EXCEPT !.raised = TRUE]
    ELSE IF UrlParse(Head(links)).netloc = base_domain
         THEN AddLinks(Tail(links), nvisited, base_domain,
                       [st EXCEPT !.urls = @ \cup {Clean(Head(links))},
                                  !.to_visit = IF nvisited < FrontierCap
                                               THEN @ \cup {Clean(Head(links))} ELSE @])
         ELSE AddLinks(Tail(links), nvisited, base_domain, st)

\* mutant of LoopCondition: the depth is not tested
LoopConditionAnyDepth(c) ==
    c.to_visit # {} /\ Cardinality(c.urls) < max_urls

\* while to_visit and depth < max_depth and len(urls) < self.max_urls
LoopCondition(c) ==
    c.to_visit # {} /\ c.depth < max_depth /\ Cardinality(c.urls) < max_urls

\* ------------------------------------------------------------ discover_urls
\* list(a set): its elements, each once, in an order the set decides
RECURSIVE ListOf(_)
ListOf(S) ==
    IF S = {} THEN <<>>
    ELSE LET x == CHOOSE y \in S : TRUE IN <<x>> \o ListOf(S \ {x})

\* the subsets of S with k elements
RECURSIVE KSubsets(_, _)
KSubsets(S, k) ==
    IF k = 0 THEN {{}}
    ELSE IF Cardinality(S) < k THEN {}
    ELSE LET x == CHOOSE y \in S : TRUE
         IN  KSubsets(S \ {x}, k) \cup {T \cup {x} : T \in KSubsets(S \ {x}, k - 1)}

\* mutant of Slice: the list is returned whole
SliceWhole(S, n) == {S}

\* the element sets list(S)[:n] can have: the iteration order of a set of
\* strings is not fixed, so any n elements can come first
Slice(S, n) == KSubsets(S, Min(n, Cardinality(S)))

\* ------------------------------------------------------------- environment
MaxDiscoverCalls == 2

ShopSite == <<"h", "t", "t", "p", "s", ":", "/", "/", "s", "h", "o", "p", ".", "e", "x", "a", "m", "p", "l", "e">>
BaseUrls == {Site, ShopSite}

\* what page.goto and page.content give for a sitemap path: goto raises, or a
\* response with a status and, for status 200, the document served
SitemapResponse(raises, status, well_formed, locs) ==
    [raises |-> raises, status |-> status,
     content |-> [well_formed |-> well_formed, locs |-> locs]]

SitemapResponses == {
    SitemapResponse(TRUE, 0, FALSE, <<>>),
    SitemapResponse(FALSE, 404, FALSE, <<>>),
    SitemapResponse(FALSE, 200, FALSE, <<>>),
    SitemapResponse(FALSE, 200, TRUE,
        <<<<"h", "t", "t", "p", "s", ":", "/", "/", "h", "/", "a">>,
          <<"h", "t", "t", "p", "s", ":", "/", "/", "h", "/", "a", "?", "x", "=", "1">>,
          <<"h", "t", "t", "p", "s", ":", "/", "/", "o", "t", "h", "e", "r", "/", "b">>,
          <<>>,
          <<" ", "h", "t", "t", "p", "s", ":", "/", "/", "h", "/", "c", "#", "t", "o", "p", " ">>,
          <<"h", "t", "t", "p", "s", ":", "/", "/", "s", "h", "o", "p", ".", "e", "x", "a", "m", "p", "l", "e", "/", "z">>>>),
    SitemapResponse(FALSE, 200, TRUE,
        <<<<"h", "t", "t", "p", "s", ":", "/", "/", "h", "/", "d">>,
          <<"h", "t", "t", "p", ":", "/", "/", "[", "b", "a", "d">>,
          <<"h", "t", "t", "p", "s", ":", "/", "/", "h", "/", "e">>>>),
    SitemapResponse(FALSE, 200, TRUE, [k \in 1..SitemapThreshold |-> ProductUrl(k)]) }

\* what page.goto and page.evaluate give for a crawled page: one of them
\* raises, or the hrefs of the page in document order
PageOutcomes == {
    [raises |-> TRUE, links |-> <<>>],
    [raises |-> FALSE, links |-> <<>>],
    [raises |-> FALSE, links |->
        <<<<"h", "t", "t", "p", "s", ":", "/", "/", "h", "/", "a", "?", "x", "=", "1", "#", "s">>,
          <<"h", "t", "t", "p", "s", ":", "/", "/", "h", "/", "b">>,
          <<"h", "t", "t", "p", "s", ":", "/", "/", "o", "t", "h", "e", "r", "/", "c">>,
          <<"h", "t", "t", "p", "s", ":", "/", "/", "h", "#", "t", "o", "p">>,
          <<"h", "t", "t", "p", "s", ":", "/", "/", "s", "h", "o", "p", ".", "e", "x", "a", "m", "p", "l", "e", "/", "s", "?", "q", "=", "1">>>>],
    [raises |-> FALSE, links |->
        <<<<"h", "t", "t", "p", "s", ":", "/", "/", "h", "/", "d">>,
          <<"h", "t", "t", "p", ":", "/", "/", "[", "b", "a", "d">>,
          <<"h", "t", "t", "p", "s", ":", "/", "/", "h", "/", "e">>>>] }

\* ------------------------------------------------------------------ actions
\* discover_urls up to the first page.goto of _fetch_sitemap
DiscoverUrlsCall(b) ==
    /\ dpc = "idle"
    /\ dhist.call < MaxDiscoverCalls
    /\ base_url' = b
    /\ dpc' = "sitemap"
    /\ sitemap' = [idx |-> 1, urls |-> {}]
    /\ crawl' = NoCrawl
    /\ result' = NoValue
    /\ dhist' = [NoDiscovery EXCEPT !.call = dhist.call + 1]
    /\ UNCHANGED <<agentVars, navVars, detectorVars, max_urls, discovered_urls>>

\* result = list(self.discovered_urls)[:self.max_urls]; return result
ReturnResult(discovered) ==
    /\ discovered_urls' = discovered
    /\ \E T \in Slice(discovered, max_urls) :
          result' = [status |-> "returned", urls |-> ListOf(T)]
    /\ dpc' = "idle"

\* _crawl_links at its loop test, with locals c: another iteration, or
\* return urls and the rest of discover_urls
CrawlLoop(c, h) ==
    /\ crawl' = c
    /\ dhist' = h
    /\ IF LoopCondition(c)
       THEN dpc' = "crawl" /\ UNCHANGED <<discovered_urls, result>>
       ELSE ReturnResult(discovered_urls \cup c.urls)

\* one iteration of the loop of _fetch_sitemap; after the last one, return
\* urls, self.discovered_urls.update(sitemap_urls) and the choice of crawling
FetchSitemapStep(o) ==
    /\ dpc = "sitemap"
    /\ LET ok == ~o.raises /\ o.status = 200
           parsed == IF ok THEN ParseSitemapXml(o.content, base_url) ELSE {}
           found == sitemap.urls \cup parsed
           failed == o.raises \/ (ok /\ ParseRaises(o.content))
           last == sitemap.idx = SitemapPaths \/ (ok /\ Cardinality(found) > SitemapStop)
           discovered == discovered_urls \cup found
           h == [dhist EXCEPT !.paths_tried = @ + 1,
                              !.sitemap_yield = Cardinality(found),
                              !.failures = IF failed THEN @ + 1 ELSE @,
                              !.failed_gave = IF failed THEN @ \cup parsed ELSE @]
       IN  IF ~last
           THEN /\ sitemap' = [idx |-> sitemap.idx + 1, urls |-> found]
                /\ dhist' = h
                /\ UNCHANGED <<dpc, discovered_urls, crawl, result>>
           ELSE /\ sitemap' = [sitemap EXCEPT !.urls = found]
                /\ IF Cardinality(discovered) < SitemapThreshold
                   THEN /\ discovered_urls' = discovered
                        /\ crawl' = [to_visit |-> {base_url}, visited |-> {},
                                     urls |-> {}, depth |-> 0]
                        /\ dhist' = [h EXCEPT !.crawl_ran = TRUE]
                        /\ dpc' = "crawl"
                        /\ UNCHANGED result
                   ELSE /\ dhist' = h
                        /\ ReturnResult(discovered)
                        /\ UNCHANGED crawl
    /\ UNCHANGED <<agentVars, navVars, detectorVars, max_urls, base_url>>

\* one iteration of the loop of _crawl_links, then its loop test
CrawlStep(o) ==
    /\ dpc = "crawl"
    /\ \E current \in crawl.to_visit :
         LET popped == [crawl EXCEPT !.to_visit = @ \ {current}]
             visited == crawl.visited \cup {current}
             st0 == [to_visit |-> popped.to_visit, urls |-> popped.urls, raised |-> o.raises]
             st == IF o.raises THEN st0
                   ELSE AddLinks(o.links, Cardinality(visited), UrlParse(base_url).netloc, st0)
         IN  IF current \in crawl.visited
             THEN CrawlLoop(popped, dhist)
             ELSE CrawlLoop([to_visit |-> st.to_visit, visited |-> visited, urls |-> st.urls,
                             depth |-> IF st.raised THEN crawl.depth ELSE crawl.depth + 1],
                            [dhist EXCEPT !.pages = @ + 1,
                                          !.loaded = IF st.raised THEN @ ELSE @ + 1,
                                          !.failures = IF st.raised THEN @ + 1 ELSE @,
                                          !.failed_gave = IF st.raised
                                                          THEN @ \cup (st.urls \ crawl.urls)
                                                          ELSE @])
    /\ UNCHANGED <<agentVars, navVars, detectorVars, max_urls, base_url, sitemap>>

InitDiscover ==
    Constructed(1) /\ DetectorConstructed /\ CrawlerConstructed({2, DefaultMaxUrls}) /\ NavigatorConstructed

NextDiscover ==
    \/ \E b \in BaseUrls : DiscoverUrlsCall(b)
    \/ \E o \in SitemapResponses : FetchSitemapStep(o)
    \/ \E o \in PageOutcomes : CrawlStep(o)

SpecDiscover == InitDiscover /\ [][NextDiscover]_vars


\* Crawls of a site without sitemap whose pages all load: a page has no
\* links, or links to more pages than FrontierCap.
UnreachableSitemaps == {o \in SitemapResponses : o.raises \/ o.status # 200}

WidePageOutcomes == {
    [raises |-> FALSE, links |-> <<>>],
    [raises |-> FALSE, links |-> [k \in 1..(FrontierCap + 1) |-> ProductUrl(k)]] }

NextFrontier ==
    \/ \E b \in BaseUrls : DiscoverUrlsCall(b)
    \/ \E o \in UnreachableSitemaps : FetchSitemapStep(o)
    \/ \E o \in WidePageOutcomes : CrawlStep(o)

SpecFrontier == InitDiscover /\ [][NextFrontier]_vars

\* Crawls of a site without sitemap, where every page.goto the crawler awaits
\* returns or raises.
NextCrawl ==
    \/ \E b \in BaseUrls : DiscoverUrlsCall(b)
    \/ \E o \in UnreachableSitemaps : FetchSitemapStep(o)
    \/ \E o \in PageOutcomes : CrawlStep(o)

SpecCrawl == InitDiscover /\ [][NextCrawl]_vars

SpecCrawlFair == SpecCrawl /\ WF_vars(NextCrawl)

\* -------------------------------------------------- claims on the crawler
DiscoverReturned == result.status = "returned"

\* C16: the list discover_urls returns has at most max_urls elements and no
\* element twice, whatever the sitemap phase and the crawl yielded.
C16_BudgetNoDuplicates ==
    DiscoverReturned =>
        /\ Len(result.urls) <= max_urls
        /\ \A i, j \in 1..Len(result.urls) : result.urls[i] = result.urls[j] => i = j

\* a call that crawled returns with more URLs discovered than the budget
C16_Witness ==
    /\ DiscoverReturned
    /\ dhist.crawl_ran
    /\ crawl.urls # {}
    /\ Cardinality(discovered_urls) > max_urls
    /\ Len(result.urls) = max_urls

\* the sitemap phase of the current discover_urls call is over
SitemapPhaseOver == dhist.call > 0 /\ dpc # "sitemap"

\* C17: in a discover_urls call the crawl runs if and only if the sitemap phase
\* of that call yielded fewer than 20 URLs, and with 20 or more no page is
\* crawled.
C17_CrawlIffSmallSitemap ==
    SitemapPhaseOver =>
        /\ dhist.crawl_ran <=> dhist.sitemap_yield < SitemapThreshold
        /\ dhist.sitemap_yield >= SitemapThreshold => dhist.pages = 0

\* u carries a query string or a fragment
HasQueryOrFragment(u) == Find(u, {"?", "#"}, 1) <= Len(u)

\* C18: every URL discover_urls returns is scheme://host/path with no query
\* string and no fragment, so no two returned URLs differ only in query or
\* fragment.
C18_ReturnedNormalized ==
    DiscoverReturned =>
        /\ \A k \in 1..Len(result.urls) : ~HasQueryOrFragment(result.urls[k])
        /\ \A i, j \in 1..Len(result.urls) :
              Before(result.urls[i], {"?", "#"}) = Before(result.urls[j], {"?", "#"}) => i = j

\* u is on the host of the entry URL of the current call
SameHost(u) == UrlParse(u).netloc = UrlParse(base_url).netloc

\* C19: every URL discover_urls returns is on the host of the entry URL, and
\* no URL of another host is ever in the crawl frontier.
C19_SameHostOnly ==
    /\ DiscoverReturned => \A k \in 1..Len(result.urls) : SameHost(result.urls[k])
    /\ dpc = "crawl" => \A u \in crawl.to_visit : SameHost(u)

\* the loop of _crawl_links ended by its own test
CrawlExhausted ==
    crawl.to_visit = {} \/ crawl.depth >= max_depth \/ Cardinality(crawl.urls) >= max_urls

\* every sitemap path was fetched, unless the loop stopped on its size test
SitemapPathsTried ==
    dhist.paths_tried = SitemapPaths \/ dhist.sitemap_yield > SitemapStop

\* C20: a failing sitemap resource or crawled page does not abort
\* discover_urls: it contributes no URLs, the other sitemap paths and the
\* pending pages are still processed, and the call returns a list.
C20_FailuresSkipped ==
    /\ dhist.failed_gave = {}
    /\ SitemapPhaseOver => SitemapPathsTried
    /\ (dhist.call > 0 /\ dpc = "idle") =>
          /\ DiscoverReturned
          /\ dhist.crawl_ran => CrawlExhausted

\* ======================================================= a raising observer
\* progress_callback is the caller's function; here it may raise.
\* str(e) of what the observer raises
ObserverErrorMsg == <<"w", "i", "d", "g", "e", "t", " ", "g", "o", "n", "e">>

\* a task that ended with an exception instead of a return value
RaisedResult == [status |-> "raised", error_message |-> ObserverErrorMsg]

\* analyze_with_semaphore: progress_callback(progress, ...) raises.  The call
\* is outside the task's try block: `async with` gives the slot back and the
\* exception ends the task.
ObserverRaises(i) ==
    /\ phase = "analysis"
    /\ MayAcquire(i)
    /\ RepUrl(i) # NoUrl
    /\ progressLog' = Append(progressLog, Progress(completed, total_to_analyze))
    /\ pc' = [pc EXCEPT ![i] = "done"]
    /\ out' = [out EXCEPT ![i] = RaisedResult]
    /\ att' = [att EXCEPT ![i] = 0]
    /\ UNCHANGED <<libVars, exits, phase, browserOpen, hist, aurl, sem, completed, page, runVars>>

\* await asyncio.gather(*tasks) raises the exception of the first task that
\* ended with one, without waiting for the other tasks; the finally clause
\* closes the browser and analyze_site raises.  The caller's
\* loop.run_until_complete returns then, and no task is resumed.
GatherRaises ==
    /\ phase = "analysis"
    /\ \E i \in Jobs : out[i] = RaisedResult
    /\ phase' = "raised"
    /\ Finally("progress_callback")
    /\ UNCHANGED <<libVars, runVars, jobVars, page, progressLog>>

\* progress_callback raises in analyze_site itself: at 0.05 before
\* initialize(), or at 0.15 before discovery
PhaseObserverRaises ==
    /\ phase \in {"init", "discover"}
    /\ phase' = "raised"
    /\ progressLog' = Append(progressLog, IF phase = "init" THEN Frac(5, 100) ELSE Frac(15, 100))
    /\ Finally("progress_callback")
    /\ UNCHANGED <<libVars, runVars, jobVars, page>>

\* a step of the task of job i while analyze_site awaits gather
JobStep(i) ==
    \/ NavRetry(i)
    \/ NavGiveUp(i)
    \/ NavOk(i)
    \/ AnalyzeStart(i)
    \/ TitleRead(i)
    \/ TitleRaises(i)
    \/ Capture(i)
    \/ CaptureRaises(i)
    \/ LlmResponds(i)
    \/ LlmRaises(i)
    \/ BackoffEnds(i)
    \/ CooldownEnds(i)

NextObs ==
    \/ InitializeBrowser
    \/ InitializeFails
    \/ PhaseObserverRaises
    \/ BeginAnalysis
    \/ \E i \in 1..MaxTemplates : Dispatch(i)
    \/ \E i \in 1..MaxTemplates : ObserverRaises(i)
    \/ \E i \in 1..MaxTemplates : phase = "analysis" /\ JobStep(i)
    \/ GatherRaises
    \/ GatherReturns
    \/ GlobalNavRetry
    \/ GlobalNavGiveUp
    \/ GlobalNavOk

SpecObs == Init /\ [][NextObs]_vars

\* every coroutine that can take a step is scheduled again
SpecObsFair == SpecObs /\ WF_vars(NextObs)

\* ==================================================== BrowserManager.navigate
MaxNavCalls == 2

\* what page.goto may raise
AbortedErrorMsg == <<"n", "e", "t", ":", ":", "E", "R", "R", "_", "A", "B", "O", "R", "T", "E", "D">>
GotoErrors == {NavErrorMsg, PageErrorMsg, AbortedErrorMsg}

\* navigate(url): last_error = None; for attempt in range(retries): the first
\* page.goto(url, wait_until='networkidle') is awaited
NavigateCall(url) ==
    /\ nav.pos = "idle"
    /\ navlog.calls < MaxNavCalls
    /\ nav' = [NoNavigation EXCEPT !.pos = "goto", !.url = url]
    /\ navlog' = [NoNavLog EXCEPT !.calls = navlog.calls + 1, !.attempts = 1]
    /\ UNCHANGED <<agentVars, detectorVars, crawlerVars>>

\* a page.goto returns; sleep(2) and _dismiss_popups follow
GotoReturns ==
    /\ nav.pos \in {"goto", "fallback"}
    /\ nav' = [nav EXCEPT !.pos = "settle"]
    /\ UNCHANGED <<agentVars, detectorVars, crawlerVars, navlog>>

\* the networkidle goto raises: the inner except logs it and awaits
\* page.goto(url, wait_until='load')
GotoRaises ==
    /\ nav.pos = "goto"
    /\ nav' = [nav EXCEPT !.pos = "fallback"]
    /\ UNCHANGED <<agentVars, detectorVars, crawlerVars, navlog>>

\* mutant of AfterFailure: every failed attempt is followed by the sleep
AfterFailureSleeps(attempt) == "sleep"

\* if attempt < retries - 1: sleep(3) else: raise last_error
AfterFailure(attempt) == IF attempt < NavRetries - 1 THEN "sleep" ELSE "raise"

\* the load goto raises too: the outer except keeps the error, then sleeps
\* before the next attempt or raises it
FallbackRaises(e) ==
    /\ nav.pos = "fallback"
    /\ IF AfterFailure(nav.attempt) = "sleep"
       THEN /\ nav' = [nav EXCEPT !.pos = "sleep", !.last_error = e]
            /\ navlog' = [navlog EXCEPT !.errors = Append(@, e), !.waits = @ + 1]
       ELSE /\ nav' = [nav EXCEPT !.pos = "idle", !.last_error = e,
                                  !.outcome = "raised", !.raised = e]
            /\ navlog' = [navlog EXCEPT !.errors = Append(@, e)]
    /\ UNCHANGED <<agentVars, detectorVars, crawlerVars>>

\* sleep(3) ends: the next iteration of the loop, or, past the last one, the
\* end of the function
RetrySleepEnds ==
    /\ nav.pos = "sleep"
    /\ IF nav.attempt + 1 < NavRetries
       THEN /\ nav' = [nav EXCEPT !.pos = "goto", !.attempt = @ + 1]
            /\ navlog' = [navlog EXCEPT !.attempts = @ + 1]
       ELSE /\ nav' = [nav EXCEPT !.pos = "idle", !.outcome = "returned"]
            /\ UNCHANGED navlog
    /\ UNCHANGED <<agentVars, detectorVars, crawlerVars>>

\* sleep(2) and _dismiss_popups, which swallows what its selectors raise,
\* are over: return
NavigateReturns ==
    /\ nav.pos = "settle"
    /\ nav' = [nav EXCEPT !.pos = "idle", !.outcome = "returned"]
    /\ UNCHANGED <<agentVars, detectorVars, crawlerVars, navlog>>

InitNavigate ==
    Constructed(1) /\ DetectorConstructed /\ CrawlerConstructed({DefaultMaxUrls})
        /\ NavigatorConstructed

NextNavigate ==
    \/ \E url \in 0..MaxTemplates : NavigateCall(url)
    \/ GotoReturns
    \/ GotoRaises
    \/ \E e \in GotoErrors : FallbackRaises(e)
    \/ RetrySleepEnds
    \/ NavigateReturns

SpecNavigate == InitNavigate /\ [][NextNavigate]_vars

\* ==================================================== claims on the run
\* C21: the k-th back-off wait of a job lasts k x 10 seconds and follows the
\* k-th consecutive rate-limited attempt (k = 1, 2); there is no wait after a
\* third failed attempt, before the first attempt, or after a failure that
\* is not a rate limit of the service.
C21_BackoffSchedule ==
    \A i \in Jobs :
        /\ \A k \in 1..Len(hist[i].waits) : hist[i].waits[k] = k * 10
        /\ Len(hist[i].waits) <= MaxRetries - 1
        /\ Len(hist[i].waits) <= hist[i].rlFails
        /\ hist[i].calls = 0 => hist[i].waits = <<>>
        /\ hist[i].otherFails > 0 => pc[i] # "backoff"

\* every job is terminal: its task has ended
AllTerminal == \A i \in Jobs : pc[i] = "done"

\* the scheduler has returned: gather gave its list to analyze_site
SchedulerReturned == phase \in {"global", "returned"} \/ report # NoValue

\* a task that ends in this step ends by its own return or exception
EndsOnItsOwn(i) ==
    (pc[i] # "done" /\ pc'[i] = "done") => (out'[i] # NoValue \/ pc[i] = "cooldown")

\* C22: gather returns and the report is assembled only when every job is
\* terminal; no job is ended from outside; and under fair scheduling a run
\* that started its jobs sees every job terminal and gather return.
C22_AllTerminalThenReturn ==
    /\ [](SchedulerReturned => AllTerminal)
    /\ [][\A i \in Jobs : i \in DOMAIN pc' => EndsOnItsOwn(i)]_vars
    /\ (phase = "analysis") ~> (AllTerminal /\ phase = "global")

\* C23: analyze_site raises to its caller only when browser.initialize()
\* failed; a run whose browser was initialized ends by returning a report.
C23_OnlyInitializeFatal ==
    /\ phase = "raised" => exits.raised_by = "initialize"
    /\ exits.closes > 0 /\ exits.raised_by # "initialize" =>
          phase = "returned" /\ report # NoValue

\* C24: what a job's outcome records as analyzed URL is the job's own
\* representative URL, and while a job is between its navigation and its
\* capture the shared page shows that URL: no other job has navigated it away.
C24_OwnPageAnalyzed ==
    \A i \in Jobs :
        /\ (pc[i] = "done" /\ out[i] # NoneResult) => out[i].analyzed_url = RepUrl(i)
        /\ pc[i] \in {"settle", "title", "capture"} => page = RepUrl(i)

\* the pages waiting to be visited
Pending == crawl.to_visit \ crawl.visited

\* C25: during the crawl at most 15 pages are pending.
C25_FrontierCapped ==
    dpc = "crawl" => Cardinality(Pending) <= FrontierCap

\* the last navigate call has ended
NavigateEnded == navlog.calls > 0 /\ nav.pos = "idle"

\* C26: navigate makes at most 2 attempts; it returns with the first attempt
\* that succeeds; it sleeps before a retry only when an attempt remains; and
\* when every attempt failed it raises the error of the last one.
C26_NavigateRetries ==
    /\ navlog.attempts <= 2
    /\ navlog.waits < NavRetries
    /\ navlog.waits <= Len(navlog.errors)
    /\ nav.pos = "sleep" => navlog.attempts < NavRetries
    /\ NavigateEnded =>
          /\ nav.outcome = "returned" <=> Len(navlog.errors) < navlog.attempts
          /\ nav.outcome = "returned" =>
                navlog.attempts = Len(navlog.errors) + 1 /\ navlog.waits = Len(navlog.errors)
          /\ nav.outcome = "raised" =>
                /\ Len(navlog.errors) = NavRetries
                /\ navlog.attempts = NavRetries
                /\ navlog.waits = NavRetries - 1
                /\ nav.raised = navlog.errors[Len(navlog.errors)]

\* a call has raised the error of its second attempt, which differs from the
\* error of its first
C26_Witness ==
    /\ NavigateEnded
    /\ nav.outcome = "raised"
    /\ Len(navlog.errors) = 2
    /\ navlog.errors[1] # navlog.errors[2]
    /\ nav.raised = navlog.errors[2]

\* the observer raised while job i was being dispatched
ObserverRaisedIn(i) == out[i] = RaisedResult

\* C27: an exception of the progress observer at a job's dispatch stays in
\* that job: the job's slot is free again, and analyze_site does not leave
\* before every job is terminal and gather has returned one outcome per job.
C27_ObserverContained ==
    (\E i \in Jobs : ObserverRaisedIn(i)) =>
        /\ sem + Cardinality({j \in Jobs : pc[j] \notin {"pending", "done"}}) = SemaphoreSlots
        /\ exits.closes > 0 =>
              /\ AllTerminal
              /\ Len(results) = Len(TemplatesToAnalyze)
              /\ exits.raised_by # "progress_callback"

\* analyze_site has returned or raised
Exited == phase \in {"returned", "raised"}

\* C28: on every exit of analyze_site, by return or by exception, the browser
\* has been closed exactly once, and close() is never called while a job is
\* still navigating, analyzing, backing off or cooling down.
C28_ClosedOnceAfterJobs ==
    /\ exits.closes = (IF Exited THEN 1 ELSE 0)
    /\ Exited => ~browserOpen
    /\ exits.running = {}

\* C29: the crawl loop ends: a crawl that started returns; it reads the
\* links of at most 2 pages; and it calls page.goto once per page, so a page
\* that failed or was visited is not visited again.
C29_CrawlTerminates ==
    /\ [](dhist.loaded <= 2)
    /\ [](dhist.pages = Cardinality(crawl.visited))
    /\ (dpc = "crawl") ~> (dpc = "idle" /\ DiscoverReturned)

\* a crawl has ended after two loaded pages and a failed one, with pages
\* still pending
C29_Witness ==
    /\ DiscoverReturned
    /\ dhist.crawl_ran
    /\ dhist.loaded = 2
    /\ dhist.pages > 2
    /\ Pending # {}

\* C30: every template detect_templates returns has at least one example URL;
\* get_representative_url gives for it the first of the given URLs that has
\* its pattern, a non-empty string, so `if not rep_url` (the skip of
\* analyze_with_semaphore) is false for it.
C30_ClusteredHaveRepresentative ==
    Returned =>
        \A k \in 1..Len(clustered.templates) :
            LET t == clustered.templates[k] IN
            /\ Len(t.example_urls) >= 1
            /\ GetRepresentativeUrl(t) = urls[FirstIndex(t.pattern)]
            /\ Len(GetRepresentativeUrl(t)) > 0

\* a returned list with a singleton template and a template of several URLs
\* whose first URL is not the first URL given
C30_Witness ==
    /\ Returned
    /\ \E i, j \in 1..Len(clustered.templates) :
        LET a == clustered.templates[i]
            b == clustered.templates[j]
        IN  /\ a.total_matches = 1
            /\ b.total_matches >= 2
            /\ FirstIndex(b.pattern) > 1
            /\ GetRepresentativeUrl(b) = urls[FirstIndex(b.pattern)]

====
